---------------------------- MODULE Spec2Model ----------------------------
(***************************************************************************)
(* A model of the flashcard application's spaced-repetition scheduler      *)
(* (lib/spacedRepetition.ts: calculateNextReview) and of the spaced study  *)
(* session built on it (components/study/SpacedMode.tsx).                  *)
(*                                                                         *)
(* Numbers.  The ease factor is a JavaScript number that the code only     *)
(* ever changes by 0.2 and 0.15 and clamps to 1.3 and 2.5; it is carried   *)
(* here in hundredths (2.5 is 250), so the products interval * 1.2,        *)
(* interval * ease and interval * ease * 1.3 are exact rationals and       *)
(* Math.round is taken on the exact product.  The IEEE-754 representation  *)
(* error of the doubles is not modelled.                                   *)
(*                                                                         *)
(* Time.  `new Date()` and the store's NOW() read the variable clock, an   *)
(* integer count of ticks; a calendar day is DayLen ticks.                 *)
(***************************************************************************)
EXTENDS Integers, Sequences, FiniteSets, TLC

VARIABLES
    clock,      \* the wall clock read by new Date() and by the store's NOW()
    fnState,    \* scheduler harness: the (ease, interval, repetitions) passed in
    fnCalls,    \* scheduler harness: the invocations made so far, oldest first
    card,       \* one card's scheduling state under a sequence of ratings
    ratingLog,  \* the ratings applied to card so far, oldest first
    setCards,       \* store: the cards of the study set (fixed during a study)
    tabs,           \* the SpacedMode instances that may be mounted (fixed)
    progress,       \* store: the card_progress row of each card, or NoRow
    studySessions,  \* store: the study_sessions row each session inserted, or NoRow
    phase,          \* per SpacedMode instance: "unmounted" or "mounted"
    dueCards,       \* React state: the due list, cards paired with their progress
    currentIndex,   \* React state: 0-based position in the due list
    showAnswer,     \* React state
    loading,        \* React state
    sessionId,      \* React state: the id of the study_sessions row, or Null
    reviewedCount,  \* React state
    loadCall,       \* loadDueCards: where the call is (suspended, returned), and its locals
    startCall,      \* startSession: where the call is suspended
    handlers,       \* handleDifficulty: the calls suspended at an await, oldest first
    writes,         \* history: card_progress updates the store applied, per session and card
    ratedAt,        \* history: when the rating stored in a card's row was given, or Null
    learn,          \* LearnMode: its props, React state and pending timers
    flash,          \* FlashcardsMode: its props, React state and pending timers
    csv,            \* csvUtils harness: the text passed in and the cards returned
    edit            \* EditSet: the cards table of the set, the editor's state, handleSave

fnVars == <<fnState, fnCalls>>
cardVars == <<card, ratingLog>>
storeVars == <<setCards, tabs, progress, studySessions>>
uiVars == <<phase, dueCards, currentIndex, showAnswer, loading, sessionId,
            reviewedCount, loadCall, startCall, handlers>>
sessVars == <<storeVars, uiVars, writes, ratedAt>>

modeVars == <<learn, flash, csv, edit>>

vars == <<clock, fnVars, cardVars, sessVars, modeVars>>

---------------------------------------------------------------------------
(* Bounds of the model *)

\* ticks of the clock in one calendar day
DayLen == 2
\* the scheduler harness draws intervals from -1..MaxFnInterval
MaxFnInterval == 10
\* the scheduler harness draws repetitions from -1..MaxFnReps
MaxFnReps == 5
\* the scheduler harness lets the clock run to MaxFnClock
MaxFnClock == 1
\* the longest sequence of ratings applied to one card
MaxRatings == 7
\* the cards of the study set are 1..NumCards
NumCards == 2
\* the spaced sessions let the clock run to MaxClock
MaxClock == 3
\* handleDifficulty calls of one session that may be suspended at once
MaxInFlight == 2
\* handleNext calls of a Learn session that may be suspended at once
MaxLearnCalls == 2
\* the generateMCQOptions harness draws sets of 1..MaxMcqCards cards
MaxMcqCards == 5
\* the decks of FlashcardsMode have 1..MaxFlashCards cards
MaxFlashCards == 3
\* slide timers of FlashcardsMode that may be pending at once
MaxFlashTimers == 2
\* the texts given to parseCSV have 0..MaxCsvLen characters
MaxCsvLen == 7
\* the export harness draws 1..MaxCsvCards cards with fields of
\* 0..MaxFieldLen characters
MaxCsvCards == 2
MaxFieldLen == 2
\* the set EditSet opens has 0..MaxStored cards, its editor holds at most
\* MaxEditCards cards, and ids up to MaxEditIds are given to editor cards
MaxStored == 2
MaxEditCards == 2
MaxEditIds == 4

---------------------------------------------------------------------------
(* Program constants, ease in hundredths *)

MinEase == 130
MaxEase == 250
AgainPenalty == 20
HardPenalty == 15
EasyBonus == 15
HardFactor == 120
EasyFactor == 130
DefaultEase == 250
DefaultInterval == 1
DefaultRepetitions == 0

\* type Difficulty
Difficulty == {"again", "hard", "good", "easy"}

Max(a, b) == IF a >= b THEN a ELSE b
Min(a, b) == IF a <= b THEN a ELSE b

\* MathRound with the half dropped: Math.floor in place of Math.round
MathFloor(num, den) == num \div den

\* Math.round(num / den) for den > 0: the nearest integer, a half rounded
\* towards plus infinity.  \div rounds towards minus infinity.
MathRound(num, den) == (2 * num + den) \div (2 * den)

\* next_review = new Date(); next_review.setDate(next_review.getDate() + interval)
NextReviewDate(interval) == clock + interval * DayLen

\* CaseAgain without the floor on the ease factor
CaseAgainNoFloor(ease, interval, repetitions) ==
    [ease_factor |-> ease - AgainPenalty,
     interval |-> 1,
     repetitions |-> 0]

\* CaseAgain that leaves the repetition streak alone
CaseAgainKeepsStreak(ease, interval, repetitions) ==
    [ease_factor |-> Max(MinEase, ease - AgainPenalty),
     interval |-> 1,
     repetitions |-> repetitions]

\* CaseAgain with the interval reset to 0 days
CaseAgainZeroInterval(ease, interval, repetitions) ==
    [ease_factor |-> Max(MinEase, ease - AgainPenalty),
     interval |-> 0,
     repetitions |-> 0]

\* case 'again'
CaseAgain(ease, interval, repetitions) ==
    [ease_factor |-> Max(MinEase, ease - AgainPenalty),
     interval |-> 1,
     repetitions |-> 0]

\* case 'hard'
CaseHard(ease, interval, repetitions) ==
    [ease_factor |-> Max(MinEase, ease - HardPenalty),
     interval |-> MathRound(interval * HardFactor, 100),
     repetitions |-> repetitions + 1]

\* case 'good'
CaseGood(ease, interval, repetitions) ==
    [ease_factor |-> ease,
     interval |-> MathRound(interval * ease, 100),
     repetitions |-> repetitions + 1]

\* CaseEasy with the product taken without the ease factor
CaseEasyDropsEase(ease, interval, repetitions) ==
    [ease_factor |-> Min(MaxEase, ease + EasyBonus),
     interval |-> MathRound(interval * EasyFactor, 100),
     repetitions |-> repetitions + 1]

\* case 'easy'
CaseEasy(ease, interval, repetitions) ==
    [ease_factor |-> Min(MaxEase, ease + EasyBonus),
     interval |-> MathRound(interval * ease * EasyFactor, 100 * 100),
     repetitions |-> repetitions + 1]

\* the switch: a difficulty that matches no case leaves the three values alone
SwitchDifficulty(ease, interval, repetitions, difficulty) ==
    CASE difficulty = "again" -> CaseAgain(ease, interval, repetitions)
      [] difficulty = "hard" -> CaseHard(ease, interval, repetitions)
      [] difficulty = "good" -> CaseGood(ease, interval, repetitions)
      [] difficulty = "easy" -> CaseEasy(ease, interval, repetitions)
      [] OTHER -> [ease_factor |-> ease, interval |-> interval,
                   repetitions |-> repetitions]

\* calculateNextReview with the date advanced by the interval passed in
calculateNextReviewStaleInterval(currentEase, currentInterval, currentRepetitions, difficulty) ==
    LET r == SwitchDifficulty(currentEase, currentInterval, currentRepetitions,
                              difficulty)
    IN  [ease_factor |-> r.ease_factor,
         interval |-> r.interval,
         repetitions |-> r.repetitions,
         next_review |-> NextReviewDate(currentInterval)]

calculateNextReview(currentEase, currentInterval, currentRepetitions, difficulty) ==
    LET r == SwitchDifficulty(currentEase, currentInterval, currentRepetitions,
                              difficulty)
    IN  [ease_factor |-> r.ease_factor,
         interval |-> r.interval,
         repetitions |-> r.repetitions,
         next_review |-> NextReviewDate(r.interval)]

---------------------------------------------------------------------------
(* The clock *)

\* time passes in the scheduler harness
FnTick ==
    /\ clock < MaxFnClock
    /\ clock' = clock + 1
    /\ UNCHANGED <<modeVars, fnVars, cardVars, sessVars>>

---------------------------------------------------------------------------
(* Scheduler harness: calculateNextReview on one argument triple, for every *)
(* difficulty, invoked at most twice at instants of the clock.             *)

\* a value that is not of type Difficulty (the type is erased at run time)
NotADifficulty == "medium"

FnDifficulties == Difficulty \cup {NotADifficulty}

\* the argument triples: the valid memory states and their near neighbours
FnStates ==
    [ease : (MinEase - 10)..(MaxEase + 10),
     interval : -1..MaxFnInterval,
     repetitions : -1..MaxFnReps]

\* the invariants of a MemoryState (spec section 3)
ValidMemoryState(s) ==
    /\ s.ease \in MinEase..MaxEase
    /\ s.interval >= 1
    /\ s.repetitions >= 0

\* the outcome the spec names for a rejected call; the code has no such path
InvalidInput == [error |-> "InvalidInput"]

NoCard == [ease_factor |-> 0, interval |-> 0, repetitions |-> 0, next_review |-> 0]

FnIdle == fnState = [ease |-> 0, interval |-> 0, repetitions |-> 0] /\ fnCalls = <<>>
CardIdle == card = NoCard /\ ratingLog = <<>>

\* the card ids and the SpacedMode instances (browser tabs, page loads)
Cards == 1..NumCards
Sessions == {1, 2}

\* SQL NULL, JavaScript null
Null == -1
\* no row in a table
NoRow == [absent |-> TRUE]
NotCalled == [pc |-> "idle"]

\* the other components are not on screen
LearnIdle == learn = [phase |-> "unmounted"]
FlashIdle == flash = [phase |-> "unmounted"]
CsvIdle == csv = [phase |-> "idle"]
EditIdle == edit = [phase |-> "unmounted"]
ModeIdle == LearnIdle /\ FlashIdle /\ CsvIdle /\ EditIdle

\* no SpacedMode mounted and no study_sessions row: useState's initial values
Unmounted ==
    /\ studySessions = [s \in Sessions |-> NoRow]
    /\ phase = [s \in Sessions |-> "unmounted"]
    /\ dueCards = [s \in Sessions |-> <<>>]
    /\ currentIndex = [s \in Sessions |-> 0]
    /\ showAnswer = [s \in Sessions |-> FALSE]
    /\ loading = [s \in Sessions |-> TRUE]
    /\ sessionId = [s \in Sessions |-> Null]
    /\ reviewedCount = [s \in Sessions |-> 0]
    /\ loadCall = [s \in Sessions |-> NotCalled]
    /\ startCall = [s \in Sessions |-> "idle"]
    /\ handlers = [s \in Sessions |-> <<>>]
    /\ writes = [s \in Sessions |-> [c \in Cards |-> 0]]

\* one tab on a set whose cards have no progress rows yet
InitSessions ==
    /\ setCards = Cards
    /\ tabs = {1}
    /\ progress = [c \in Cards |-> NoRow]
    /\ ratedAt = [c \in Cards |-> Null]
    /\ Unmounted

SessIdle == InitSessions

InitFn ==
    /\ clock = 0
    /\ ModeIdle
    /\ fnState \in FnStates
    /\ fnCalls = <<>>
    /\ CardIdle
    /\ SessIdle

\* one invocation per difficulty, all at the current instant
FnInvoke ==
    /\ Len(fnCalls) < 2
    /\ fnCalls' = Append(fnCalls,
           [at |-> clock,
            ret |-> [d \in FnDifficulties |->
                       calculateNextReview(fnState.ease, fnState.interval,
                                           fnState.repetitions, d)]])
    /\ UNCHANGED <<modeVars, clock, fnState, cardVars, sessVars>>

NextFn == FnInvoke \/ FnTick

SpecFn == InitFn /\ [][NextFn]_vars

---------------------------------------------------------------------------
(* One card from the default state under any sequence of ratings *)

\* DefaultProgress with the first review a day after the insert
DefaultProgressNextDay ==
    [ease_factor |-> DefaultEase,
     interval |-> DefaultInterval,
     repetitions |-> DefaultRepetitions,
     next_review |-> clock + DefaultInterval * DayLen]

\* the row the store creates for a card: the column defaults of card_progress
DefaultProgress ==
    [ease_factor |-> DefaultEase,
     interval |-> DefaultInterval,
     repetitions |-> DefaultRepetitions,
     next_review |-> clock]

InitCard ==
    /\ clock = 0
    /\ ModeIdle
    /\ FnIdle
    /\ SessIdle
    /\ card = DefaultProgress
    /\ ratingLog = <<>>

\* the card is rated: its state becomes the scheduler's result
Rate(d) ==
    /\ Len(ratingLog) < MaxRatings
    /\ card' = calculateNextReview(card.ease_factor, card.interval,
                                   card.repetitions, d)
    /\ ratingLog' = Append(ratingLog, d)
    /\ UNCHANGED <<modeVars, clock, fnVars, sessVars>>

NextCard == \E d \in Difficulty : Rate(d)

SpecCard == InitCard /\ [][NextCard]_vars

---------------------------------------------------------------------------
(* The spaced study session: SpacedMode.tsx against the store.             *)
(* Each await suspends its call; the action that resumes it applies the    *)
(* request to the store and runs the continuation to the next await.       *)
(* Requests of different calls are answered in any order.                  *)

\* time passes while sessions run
Tick ==
    /\ clock < MaxClock
    /\ clock' = clock + 1
    /\ UNCHANGED <<modeVars, fnVars, cardVars, sessVars>>

\* the orders in which a select without ORDER BY may return the set's cards
CardOrders ==
    {o \in [1..Cardinality(setCards) -> setCards] :
        \A i, j \in 1..Cardinality(setCards) : i # j => o[i] # o[j]}

\* seq without its element at position h
RemoveAt(seq, h) == [i \in 1..(Len(seq) - 1) |-> IF i < h THEN seq[i] ELSE seq[i + 1]]

\* useEffect(() => { loadDueCards(); startSession(); }, []): both calls run
\* to their first await
Mount(s) ==
    /\ s \in tabs
    /\ phase[s] = "unmounted"
    /\ phase' = [phase EXCEPT ![s] = "mounted"]
    /\ loadCall' = [loadCall EXCEPT ![s] = [pc |-> "select"]]
    /\ startCall' = [startCall EXCEPT ![s] = "insert"]
    /\ UNCHANGED <<modeVars, clock, fnVars, cardVars, storeVars, dueCards, currentIndex,
                   showAnswer, loading, sessionId, reviewedCount, handlers, writes, ratedAt>>

\* startSession resumes: the store has inserted the study_sessions row
StartSessionInserted(s) ==
    /\ startCall[s] = "insert"
    /\ studySessions' = [studySessions EXCEPT ![s] =
           [ended_at |-> Null, cards_studied |-> 0]]
    /\ sessionId' = [sessionId EXCEPT ![s] = s]
    /\ startCall' = [startCall EXCEPT ![s] = "done"]
    /\ UNCHANGED <<modeVars, clock, fnVars, cardVars, setCards, tabs, progress, phase, dueCards,
                   currentIndex, showAnswer, loading, reviewedCount, loadCall,
                   handlers, writes, ratedAt>>

\* `if (new Date(progress.next_review) <= now) due.push({...cardData, progress})`
PushIfDue(due, c, row, now) ==
    IF row.next_review <= now THEN Append(due, [id |-> c, progress |-> row]) ELSE due

\* the for loop of loadDueCards from position k, run until it awaits the
\* insert for a card without progress or falls off the end
RECURSIVE LoadLoop(_, _, _, _)
LoadLoop(cardsData, k, now, due) ==
    IF k > Len(cardsData)
    THEN [pc |-> "done", cardsData |-> cardsData, k |-> k, now |-> now, due |-> due]
    ELSE IF cardsData[k].progress = NoRow
    THEN [pc |-> "insert", cardsData |-> cardsData, k |-> k, now |-> now, due |-> due]
    ELSE LoadLoop(cardsData, k + 1, now,
                  PushIfDue(due, cardsData[k].id, cardsData[k].progress, now))

\* loadDueCards after a step of its loop: suspended at an insert, or past
\* the loop with setDueCards(due) and, in finally, setLoading(false)
LoadContinue(s, l) ==
    IF l.pc = "done"
    THEN /\ loadCall' = [loadCall EXCEPT ![s] = l]
         /\ dueCards' = [dueCards EXCEPT ![s] = l.due]
         /\ loading' = [loading EXCEPT ![s] = FALSE]
    ELSE /\ loadCall' = [loadCall EXCEPT ![s] = l]
         /\ UNCHANGED <<modeVars, dueCards, loading>>

\* loadDueCards resumes with the cards and their progress: it takes `now`
\* and enters the loop
LoadSelected(s) ==
    /\ loadCall[s].pc = "select"
    /\ \E o \in CardOrders :
          LET cardsData == [i \in 1..Cardinality(setCards) |->
                              [id |-> o[i], progress |-> progress[o[i]]]]
          IN  LoadContinue(s, LoadLoop(cardsData, 1, clock, <<>>))
    /\ UNCHANGED <<modeVars, clock, fnVars, cardVars, storeVars, phase, currentIndex,
                   showAnswer, sessionId, reviewedCount, startCall, handlers, writes, ratedAt>>

\* LoadInserted with the insert as an upsert: a row that exists is replaced
\* by the column defaults
LoadInsertedUpsert(s) ==
    /\ loadCall[s].pc = "insert"
    /\ LET l == loadCall[s]
           c == l.cardsData[l.k].id
       IN  /\ progress' = [progress EXCEPT ![c] =
                  DefaultProgress @@ [last_reviewed |-> Null]]
           /\ LoadContinue(s, LoadLoop(l.cardsData, l.k + 1, l.now,
                  PushIfDue(l.due, c, progress'[c], l.now)))
    /\ UNCHANGED <<modeVars, clock, fnVars, cardVars, setCards, tabs, studySessions, phase, currentIndex,
                   showAnswer, sessionId, reviewedCount, startCall, handlers, writes, ratedAt>>

\* loadDueCards resumes from `insert({ card_id }).select().single()`.  The
\* store inserts the row from the column defaults, or refuses it under
\* UNIQUE(card_id); then data is null, `progress.next_review` throws, the
\* catch logs it and finally runs setLoading(false).
LoadInserted(s) ==
    /\ loadCall[s].pc = "insert"
    /\ LET l == loadCall[s]
           c == l.cardsData[l.k].id
       IN  IF progress[c] = NoRow
           THEN /\ progress' = [progress EXCEPT ![c] =
                       DefaultProgress @@ [last_reviewed |-> Null]]
                /\ LoadContinue(s, LoadLoop(l.cardsData, l.k + 1, l.now,
                       PushIfDue(l.due, c, progress'[c], l.now)))
           ELSE /\ loadCall' = [loadCall EXCEPT ![s] = [l EXCEPT !.pc = "failed"]]
                /\ loading' = [loading EXCEPT ![s] = FALSE]
                /\ UNCHANGED <<modeVars, progress, dueCards>>
    /\ UNCHANGED <<modeVars, clock, fnVars, cardVars, setCards, tabs, studySessions, phase, currentIndex,
                   showAnswer, sessionId, reviewedCount, startCall, handlers, writes, ratedAt>>

\* the render shows a card of the due list
CardShown(s) ==
    /\ phase[s] = "mounted"
    /\ ~loading[s]
    /\ Len(dueCards[s]) # 0
    /\ currentIndex[s] < Len(dueCards[s])

\* the Show Answer button
ShowAnswerClicked(s) ==
    /\ CardShown(s)
    /\ ~showAnswer[s]
    /\ showAnswer' = [showAnswer EXCEPT ![s] = TRUE]
    /\ UNCHANGED <<modeVars, clock, fnVars, cardVars, storeVars, phase, dueCards,
                   currentIndex, loading, sessionId, reviewedCount, loadCall,
                   startCall, handlers, writes, ratedAt>>

\* handleDifficulty to its first await.  calculateNextReview reads the
\* clock for next_review; `last_reviewed: new Date().toISOString()` reads
\* it again, `elapsed` ticks later.  The call keeps the currentIndex,
\* sessionId and reviewedCount of the render it was created in.
HandleDifficulty(s, difficulty) ==
    /\ CardShown(s)
    /\ showAnswer[s]
    /\ Len(handlers[s]) < MaxInFlight
    /\ \E elapsed \in 0..1 :
          LET current == dueCards[s][currentIndex[s] + 1]
              result == calculateNextReview(current.progress.ease_factor,
                                            current.progress.interval,
                                            current.progress.repetitions,
                                            difficulty)
          IN  /\ clock + elapsed <= MaxClock
              /\ clock' = clock + elapsed
              /\ handlers' = [handlers EXCEPT ![s] = Append(@,
                     [pc |-> "update",
                      id |-> current.id,
                      update |-> result @@ [last_reviewed |-> clock'],
                      at |-> clock,
                      difficulty |-> difficulty,
                      currentIndex |-> currentIndex[s],
                      sessionId |-> sessionId[s],
                      reviewedCount |-> reviewedCount[s]])]
    /\ UNCHANGED <<modeVars, fnVars, cardVars, storeVars, phase, dueCards, currentIndex,
                   showAnswer, loading, sessionId, reviewedCount, loadCall,
                   startCall, writes, ratedAt>>

\* handleDifficulty resumes: the store has applied the card_progress
\* update.  On the last card with a session id it awaits the
\* study_sessions update; otherwise it finishes with setCurrentIndex.
ProgressUpdated(s, h) ==
    /\ h \in 1..Len(handlers[s])
    /\ handlers[s][h].pc = "update"
    /\ LET call == handlers[s][h]
           ends == /\ call.currentIndex = Len(dueCards[s]) - 1
                   /\ call.sessionId # Null
       IN  /\ progress' = [progress EXCEPT ![call.id] = call.update]
           /\ writes' = [writes EXCEPT ![s][call.id] = @ + 1]
           /\ ratedAt' = [ratedAt EXCEPT ![call.id] = call.at]
           /\ reviewedCount' = [reviewedCount EXCEPT ![s] = call.reviewedCount + 1]
           /\ showAnswer' = [showAnswer EXCEPT ![s] = FALSE]
           /\ IF ends
              THEN /\ handlers' = [handlers EXCEPT ![s][h] =
                          [call EXCEPT !.pc = "end"] @@ [ended_at |-> clock]]
                   /\ UNCHANGED currentIndex
              ELSE /\ handlers' = [handlers EXCEPT ![s] = RemoveAt(@, h)]
                   /\ currentIndex' = [currentIndex EXCEPT ![s] = call.currentIndex + 1]
    /\ UNCHANGED <<modeVars, clock, fnVars, cardVars, setCards, tabs, studySessions, phase, dueCards,
                   loading, sessionId, loadCall, startCall>>

\* handleDifficulty resumes: the store has closed the study_sessions row
SessionEnded(s, h) ==
    /\ h \in 1..Len(handlers[s])
    /\ handlers[s][h].pc = "end"
    /\ LET call == handlers[s][h]
       IN  /\ studySessions' = [studySessions EXCEPT ![call.sessionId] =
                  [@ EXCEPT !.ended_at = call.ended_at,
                            !.cards_studied = Len(dueCards[s])]]
           /\ handlers' = [handlers EXCEPT ![s] = RemoveAt(@, h)]
           /\ currentIndex' = [currentIndex EXCEPT ![s] = call.currentIndex + 1]
    /\ UNCHANGED <<modeVars, clock, fnVars, cardVars, setCards, tabs, progress, phase, dueCards,
                   showAnswer, loading, sessionId, reviewedCount, loadCall,
                   startCall, writes, ratedAt>>

Init ==
    /\ clock = 0
    /\ ModeIdle
    /\ FnIdle
    /\ CardIdle
    /\ InitSessions

Next ==
    \/ Tick
    \/ \E s \in Sessions : Mount(s)
    \/ \E s \in Sessions : StartSessionInserted(s)
    \/ \E s \in Sessions : LoadSelected(s)
    \/ \E s \in Sessions : LoadInserted(s)
    \/ \E s \in Sessions : ShowAnswerClicked(s)
    \/ \E s \in Sessions : \E d \in Difficulty : HandleDifficulty(s, d)
    \/ \E s \in Sessions : \E h \in 1..MaxInFlight : ProgressUpdated(s, h)
    \/ \E s \in Sessions : \E h \in 1..MaxInFlight : SessionEnded(s, h)

Spec == Init /\ [][Next]_vars

---------------------------------------------------------------------------
(* Two tabs opened on the same set, up to the end of loadDueCards: the     *)
(* loads race each other on a store that earlier sessions may have filled. *)

\* the rows a session at instant 0 can have left for a card: none, the
\* row as inserted, or the row after one rating
PriorRows ==
    {NoRow, DefaultProgress @@ [last_reviewed |-> Null]}
    \cup {calculateNextReview(DefaultEase, DefaultInterval, DefaultRepetitions, d)
             @@ [last_reviewed |-> 0] : d \in Difficulty}

InitLoad ==
    /\ clock = 0
    /\ ModeIdle
    /\ FnIdle
    /\ CardIdle
    /\ setCards = Cards
    /\ tabs = Sessions
    /\ progress \in [Cards -> PriorRows]
    /\ ratedAt = [c \in Cards |->
                    IF progress[c] # NoRow /\ progress[c].last_reviewed # Null
                    THEN 0 ELSE Null]
    /\ Unmounted

NextLoad ==
    \/ Tick
    \/ \E s \in Sessions : Mount(s)
    \/ \E s \in Sessions : StartSessionInserted(s)
    \/ \E s \in Sessions : LoadSelected(s)
    \/ \E s \in Sessions : LoadInserted(s)

SpecLoad == InitLoad /\ [][NextLoad]_vars


---------------------------------------------------------------------------
(* One tab reviews a one-card set; the set is opened in a second tab at    *)
(* any moment, and that tab loads its due list and is left alone.          *)

InitSecondTab ==
    /\ clock = 0
    /\ ModeIdle
    /\ FnIdle
    /\ CardIdle
    /\ setCards = {1}
    /\ tabs = Sessions
    /\ progress = [c \in Cards |-> NoRow]
    /\ ratedAt = [c \in Cards |-> Null]
    /\ Unmounted

NextSecondTab ==
    \/ Tick
    \/ \E s \in Sessions : Mount(s)
    \/ \E s \in Sessions : StartSessionInserted(s)
    \/ \E s \in Sessions : LoadSelected(s)
    \/ \E s \in Sessions : LoadInserted(s)
    \/ ShowAnswerClicked(1)
    \/ \E d \in Difficulty : HandleDifficulty(1, d)
    \/ \E h \in 1..MaxInFlight : ProgressUpdated(1, h)
    \/ \E h \in 1..MaxInFlight : SessionEnded(1, h)

SpecSecondTab == InitSecondTab /\ [][NextSecondTab]_vars

---------------------------------------------------------------------------
(* LearnMode.tsx.  A Learn session asks each card as a typing question     *)
(* and, in sets of four cards or more, as a multiple-choice question.      *)
(* Card fronts, typed answers and options are one-letter lowercase         *)
(* strings.  inputKey, selectedOption and the focus timer only drive the   *)
(* display and are left out.                                               *)

\* `if (cards.length >= 4)`
MinMcqCards == 4
\* `.slice(0, 3)`
MaxWrongAnswers == 3

\* the fronts of the cards of a Learn set, by card id
LearnFronts == <<"a", "b", "c", "d">>

\* what the user may type: a card's front, something else, or nothing
LearnAnswers == {"a", "b", "x", ""}

\* no setTimeout pending
NoTimer == [pending |-> FALSE]

\* `array.sort(() => Math.random() - 0.5)`: the array in some order
Shuffles(array) ==
    {[i \in 1..Len(array) |-> array[p[i]]] : p \in Permutations(1..Len(array))}

\* Extended with the multiple-choice questions added for every set
ExtendedAlwaysMcq(cards) ==
    [j \in 1..(2 * Len(cards)) |->
        cards[(j + 1) \div 2]
            @@ [questionMode |-> IF j % 2 = 1 THEN "typing" ELSE "mcq"]]

\* the init effect's `extended`: each card as a typing question, followed
\* by the same card as an mcq question when the set has four cards or more
Extended(cards) ==
    IF Len(cards) >= MinMcqCards
    THEN [j \in 1..(2 * Len(cards)) |->
            cards[(j + 1) \div 2]
                @@ [questionMode |-> IF j % 2 = 1 THEN "typing" ELSE "mcq"]]
    ELSE [j \in 1..Len(cards) |-> cards[j] @@ [questionMode |-> "typing"]]

\* generateMCQOptions that filters on the card id only
generateMCQOptionsByIdOnly(cards, correctAnswer, currentCardId) ==
    LET others == SelectSeq(cards, LAMBDA c : c.id # currentCardId)
        fronts == [i \in 1..Len(others) |-> others[i].front]
    IN  UNION {Shuffles(SubSeq(w, 1, Min(MaxWrongAnswers, Len(w))) \o <<correctAnswer>>) :
                 w \in Shuffles(fronts)}

\* the option lists generateMCQOptions may return
generateMCQOptions(cards, correctAnswer, currentCardId) ==
    LET others == SelectSeq(cards,
                      LAMBDA c : c.id # currentCardId /\ c.front # correctAnswer)
        fronts == [i \in 1..Len(others) |-> others[i].front]
    IN  UNION {Shuffles(SubSeq(w, 1, Min(MaxWrongAnswers, Len(w))) \o <<correctAnswer>>) :
                 w \in Shuffles(fronts)}

\* the values prepareQuestion may give mcqOptions; index counts from 0
prepareQuestion(cards, index, cardsToUse) ==
    LET question == cardsToUse[index + 1]
    IN  IF question.questionMode = "mcq"
        THEN generateMCQOptions(cards, question.front, question.id)
        ELSE {<<>>}

\* fuzzyMatch on one-letter strings: two different letters have
\* similarity 0, so only the equal ones match
fuzzyMatch(answer, target) == answer = target

\* LearnMode on its first render: the cards prop and useState's initial values
LearnCreated(cards) ==
    [phase |-> "created",
     cards |-> cards,
     studyCards |-> <<>>,
     currentIndex |-> 0,
     userAnswer |-> "",
     showResult |-> FALSE,
     isCorrect |-> FALSE,
     correctCount |-> 0,
     sessionId |-> Null,
     mcqOptions |-> <<>>,
     isTransitioning |-> FALSE,
     startCall |-> "idle",      \* startSession: where the call is
     timer |-> NoTimer,         \* the 800 ms timer of the auto-advance effect
     fading |-> NoTimer,        \* the 300 ms timer the first one starts
     nextCalls |-> <<>>,        \* handleNext calls suspended at the await
     session |-> NoRow]         \* store: the study_sessions row of the session

\* the cards prop of a set of n cards
LearnCards(n) == [i \in 1..n |-> [id |-> i, front |-> LearnFronts[i]]]

\* what a handleNext created in a render reads from that render
LearnClosure(l) ==
    [currentIndex |-> l.currentIndex,
     correctCount |-> l.correctCount,
     sessionId |-> l.sessionId]

\* the auto-advance effect, deps [showResult, isCorrect], after the render
\* that takes old to new: its cleanup clears the 800 ms timer, and it sets
\* a new one, holding that render's handleNext, if a correct result shows
AutoAdvanceEffect(old, new) ==
    IF new.showResult = old.showResult /\ new.isCorrect = old.isCorrect
    THEN new
    ELSE [new EXCEPT !.timer = IF new.showResult /\ new.isCorrect
                               THEN [pending |-> TRUE] @@ LearnClosure(new)
                               ELSE NoTimer]

\* the init effect: studyCards, startSession to its await, prepareQuestion(0)
LearnMount ==
    /\ learn.phase = "created"
    /\ \E shuffled \in Shuffles(Extended(learn.cards)) :
       \E options \in (IF Len(shuffled) > 0
                        THEN prepareQuestion(learn.cards, 0, shuffled)
                        ELSE {learn.mcqOptions}) :
          learn' = [learn EXCEPT !.phase = "mounted",
                                 !.studyCards = shuffled,
                                 !.startCall = "insert",
                                 !.mcqOptions = options]
    /\ UNCHANGED <<clock, fnVars, cardVars, sessVars, flash, csv, edit>>

\* startSession resumes: the store has inserted the study_sessions row
LearnSessionInserted ==
    /\ learn.phase = "mounted"
    /\ learn.startCall = "insert"
    /\ learn' = [learn EXCEPT !.startCall = "done",
                              !.sessionId = 1,
                              !.session = [ended_at |-> Null, cards_studied |-> 0,
                                           correct_count |-> 0]]
    /\ UNCHANGED <<clock, fnVars, cardVars, sessVars, flash, csv, edit>>

\* the render shows a question
QuestionShown ==
    /\ learn.phase = "mounted"
    /\ Len(learn.studyCards) # 0
    /\ learn.currentIndex < Len(learn.studyCards)

\* the typing input's onChange
SetUserAnswer(value) ==
    /\ QuestionShown
    /\ ~learn.showResult
    /\ learn.studyCards[learn.currentIndex + 1].questionMode = "typing"
    /\ value # learn.userAnswer
    /\ learn' = [learn EXCEPT !.userAnswer = value]
    /\ UNCHANGED <<clock, fnVars, cardVars, sessVars, flash, csv, edit>>

\* Check Answer, enabled by a non-blank userAnswer
checkAnswer ==
    /\ QuestionShown
    /\ ~learn.showResult
    /\ learn.studyCards[learn.currentIndex + 1].questionMode = "typing"
    /\ learn.userAnswer # ""
    /\ LET correct == fuzzyMatch(learn.userAnswer,
                                 learn.studyCards[learn.currentIndex + 1].front)
       IN  learn' = AutoAdvanceEffect(learn,
               [learn EXCEPT !.isCorrect = correct,
                             !.showResult = TRUE,
                             !.correctCount = IF correct THEN @ + 1 ELSE @])
    /\ UNCHANGED <<clock, fnVars, cardVars, sessVars, flash, csv, edit>>

\* handleNext from `const nextIndex` on, for the handleNext of closure c
LearnAdvance(l, c, options) ==
    [l EXCEPT !.currentIndex = c.currentIndex + 1,
              !.userAnswer = "",
              !.showResult = FALSE,
              !.mcqOptions = options]

\* the values handleNext's prepareQuestion(nextIndex) may give mcqOptions
NextOptions(l, c) ==
    IF c.currentIndex + 1 < Len(l.studyCards)
    THEN prepareQuestion(l.cards, c.currentIndex + 1, l.studyCards)
    ELSE {l.mcqOptions}

\* handleNext of closure c called in state l: on the last question with a
\* session id it suspends at the await, otherwise it runs to its end
handleNext(l, c, options) ==
    IF c.currentIndex = Len(l.studyCards) - 1 /\ c.sessionId # Null
    THEN [l EXCEPT !.nextCalls = Append(@, c)]
    ELSE LearnAdvance(l, c, options)

\* the Next Card / Finish button, shown with the result
NextClicked ==
    /\ QuestionShown
    /\ learn.showResult
    /\ Len(learn.nextCalls) < MaxLearnCalls
    /\ \E options \in NextOptions(learn, LearnClosure(learn)) :
          learn' = AutoAdvanceEffect(learn,
                       handleNext(learn, LearnClosure(learn), options))
    /\ UNCHANGED <<clock, fnVars, cardVars, sessVars, flash, csv, edit>>

\* the 800 ms timer fires: setIsTransitioning(true) and the 300 ms timer.
\* A 300 ms timer still pending was started before this 800 ms timer and
\* fires first.
TimerFires ==
    /\ learn.phase = "mounted"
    /\ learn.timer # NoTimer
    /\ learn.fading = NoTimer
    /\ learn' = [learn EXCEPT !.isTransitioning = TRUE,
                              !.fading = learn.timer,
                              !.timer = NoTimer]
    /\ UNCHANGED <<clock, fnVars, cardVars, sessVars, flash, csv, edit>>

\* the 300 ms timer fires: the handleNext it holds, then
\* setIsTransitioning(false)
FadeEnds ==
    /\ learn.phase = "mounted"
    /\ learn.fading # NoTimer
    /\ Len(learn.nextCalls) < MaxLearnCalls
    /\ \E options \in NextOptions(learn, learn.fading) :
          learn' = AutoAdvanceEffect(learn,
                       [handleNext(learn, learn.fading, options)
                           EXCEPT !.isTransitioning = FALSE,
                                  !.fading = NoTimer])
    /\ UNCHANGED <<clock, fnVars, cardVars, sessVars, flash, csv, edit>>

\* handleNext resumes: the store has closed the study_sessions row
NextResumed(k) ==
    /\ learn.phase = "mounted"
    /\ k \in 1..Len(learn.nextCalls)
    /\ LET c == learn.nextCalls[k]
           closed == [learn EXCEPT
                         !.session = [ended_at |-> clock,
                                      cards_studied |-> Len(learn.studyCards),
                                      correct_count |-> c.correctCount],
                         !.nextCalls = RemoveAt(@, k)]
       IN  learn' = AutoAdvanceEffect(learn, LearnAdvance(closed, c, learn.mcqOptions))
    /\ UNCHANGED <<clock, fnVars, cardVars, sessVars, flash, csv, edit>>

\* a Learn session on a set too small for multiple-choice questions
InitLearn ==
    /\ clock = 0
    /\ FnIdle /\ CardIdle /\ SessIdle
    /\ FlashIdle /\ CsvIdle /\ EditIdle
    /\ \E n \in 1..(MinMcqCards - 1) : learn = LearnCreated(LearnCards(n))

NextLearn ==
    \/ LearnMount
    \/ LearnSessionInserted
    \/ \E value \in LearnAnswers : SetUserAnswer(value)
    \/ checkAnswer
    \/ NextClicked
    \/ TimerFires
    \/ FadeEnds
    \/ \E k \in 1..MaxLearnCalls : NextResumed(k)

SpecLearn == InitLearn /\ [][NextLearn]_vars

\* the init effect alone, on sets of up to MinMcqCards cards
InitLearnInit ==
    /\ clock = 0
    /\ FnIdle /\ CardIdle /\ SessIdle
    /\ FlashIdle /\ CsvIdle /\ EditIdle
    /\ \E n \in 0..MinMcqCards : learn = LearnCreated(LearnCards(n))

SpecLearnInit == InitLearnInit /\ [][LearnMount]_vars

\* generateMCQOptions on its own: any set of cards, fronts repeated or
\* not, and any card of it as the current one
McqFronts == {"a", "b", "c"}

InitMCQ ==
    /\ clock = 0
    /\ FnIdle /\ CardIdle /\ SessIdle
    /\ FlashIdle /\ CsvIdle /\ EditIdle
    /\ \E n \in 1..MaxMcqCards : \E fronts \in [1..n -> McqFronts] : \E k \in 1..n :
          learn = [phase |-> "generate",
                   cards |-> [i \in 1..n |-> [id |-> i, front |-> fronts[i]]],
                   currentCardId |-> k,
                   correctAnswer |-> fronts[k],
                   called |-> FALSE,
                   options |-> <<>>]

GenerateMCQ ==
    /\ learn.phase = "generate"
    /\ ~learn.called
    /\ \E options \in generateMCQOptions(learn.cards, learn.correctAnswer,
                                          learn.currentCardId) :
          learn' = [learn EXCEPT !.called = TRUE, !.options = options]
    /\ UNCHANGED <<clock, fnVars, cardVars, sessVars, flash, csv, edit>>

SpecMCQ == InitMCQ /\ [][GenerateMCQ]_vars

---------------------------------------------------------------------------
(* FlashcardsMode.tsx.  Cards are their ids.  A swipe is the gesture that  *)
(* handleTouchEnd makes of touchStart and touchEnd; swipeOffset only       *)
(* drives the display and is left out.                                     *)

\* the non-empty card lists the cards prop may be
FlashDecks ==
    UNION {{d \in [1..n -> 1..MaxFlashCards] :
               \A i, j \in 1..n : i # j => d[i] # d[j]} : n \in 1..MaxFlashCards}

\* what the handleNext and handlePrev created in a render read from it
FlashClosure(f) ==
    [isAnimating |-> f.isAnimating, length |-> Len(f.studyCards)]

\* the keydown effect, deps [isFlipped, currentIndex], after the render
\* that takes old to new: the listener is replaced by that render's
\* handleKeyPress when a dep changed
KeyEffect(old, new) ==
    IF new.isFlipped = old.isFlipped /\ new.currentIndex = old.currentIndex
    THEN new
    ELSE [new EXCEPT !.keyListener = FlashClosure(new)]

\* FlashcardsMode mounted: useState's initial values, the keydown effect run
FlashMounted(cards) ==
    [phase |-> "mounted",
     cards |-> cards,
     studyCards |-> cards,
     currentIndex |-> 0,
     isFlipped |-> FALSE,
     isAnimating |-> FALSE,
     keyListener |-> [isAnimating |-> FALSE, length |-> Len(cards)],
     timers |-> <<>>]       \* the slide timers pending, oldest first

\* handleNext (step 1) and handlePrev (step -1) of a render, to the timeout
slide(f, closure, step) ==
    IF closure.isAnimating
    THEN f
    ELSE [f EXCEPT !.isAnimating = TRUE,
                   !.timers = Append(@, [step |-> step, length |-> closure.length])]

\* the next and previous buttons
SlideClicked(step) ==
    /\ flash.phase = "mounted"
    /\ Len(flash.timers) < MaxFlashTimers
    /\ flash' = KeyEffect(flash, slide(flash, FlashClosure(flash), step))
    /\ UNCHANGED <<clock, fnVars, cardVars, sessVars, learn, csv, edit>>

\* the flip button, a click on the card, and the space key, whose handler
\* is of the render that last changed isFlipped
FlipClicked ==
    /\ flash.phase = "mounted"
    /\ flash' = KeyEffect(flash, [flash EXCEPT !.isFlipped = ~@])
    /\ UNCHANGED <<clock, fnVars, cardVars, sessVars, learn, csv, edit>>

\* handleTouchEnd: a short movement flips, a swipe left is handleNext, a
\* swipe right is handlePrev
TouchEnd(gesture) ==
    /\ flash.phase = "mounted"
    /\ Len(flash.timers) < MaxFlashTimers
    /\ flash' = KeyEffect(flash,
           CASE gesture = "tap" -> [flash EXCEPT !.isFlipped = ~@]
             [] gesture = "left" -> slide(flash, FlashClosure(flash), 1)
             [] gesture = "right" -> slide(flash, FlashClosure(flash), -1))
    /\ UNCHANGED <<clock, fnVars, cardVars, sessVars, learn, csv, edit>>

\* handleKeyPress for the arrow keys: the handleNext and handlePrev of the
\* render the listener was registered in
ArrowPressed(step) ==
    /\ flash.phase = "mounted"
    /\ Len(flash.timers) < MaxFlashTimers
    /\ flash' = KeyEffect(flash, slide(flash, flash.keyListener, step))
    /\ UNCHANGED <<clock, fnVars, cardVars, sessVars, learn, csv, edit>>

\* the oldest slide timer fires
SlideEnds ==
    /\ flash.phase = "mounted"
    /\ flash.timers # <<>>
    /\ LET t == Head(flash.timers)
       IN  flash' = KeyEffect(flash,
               [flash EXCEPT !.isFlipped = FALSE,
                             !.currentIndex = (@ + t.step + t.length) % t.length,
                             !.isAnimating = FALSE,
                             !.timers = Tail(@)])
    /\ UNCHANGED <<clock, fnVars, cardVars, sessVars, learn, csv, edit>>

\* handleShuffle
handleShuffle ==
    /\ flash.phase = "mounted"
    /\ \E shuffled \in Shuffles(flash.studyCards) :
          flash' = KeyEffect(flash,
              [flash EXCEPT !.studyCards = shuffled,
                            !.currentIndex = 0,
                            !.isFlipped = FALSE])
    /\ UNCHANGED <<clock, fnVars, cardVars, sessVars, learn, csv, edit>>

\* the parent passes another cards prop: `useEffect(() => setStudyCards(cards), [cards])`
CardsReplaced(cards) ==
    /\ flash.phase = "mounted"
    /\ cards # flash.cards
    /\ flash' = [flash EXCEPT !.cards = cards, !.studyCards = cards]
    /\ UNCHANGED <<clock, fnVars, cardVars, sessVars, learn, csv, edit>>

InitFlash ==
    /\ clock = 0
    /\ FnIdle /\ CardIdle /\ SessIdle
    /\ LearnIdle /\ CsvIdle /\ EditIdle
    /\ \E cards \in FlashDecks : flash = FlashMounted(cards)

NextFlash ==
    \/ \E step \in {1, -1} : SlideClicked(step)
    \/ FlipClicked
    \/ \E gesture \in {"tap", "left", "right"} : TouchEnd(gesture)
    \/ \E step \in {1, -1} : ArrowPressed(step)
    \/ SlideEnds
    \/ handleShuffle
    \/ \E cards \in FlashDecks : CardsReplaced(cards)

SpecFlash == InitFlash /\ [][NextFlash]_vars

---------------------------------------------------------------------------
(* csvUtils.ts parseCSV and the text export and import of EditSet.  A      *)
(* string is the sequence of its characters.                               *)

\* the characters of the texts: letters, the comma, and white space
CsvChars == {"a", "b", ",", " ", "\n"}
\* what String.prototype.trim strips, among CsvChars
WhiteSpace == {" ", "\n"}

\* the strings over chars of length 0..n
Strings(chars, n) == UNION {[1..k -> chars] : k \in 0..n}

RECURSIVE trimStart(_)
trimStart(str) ==
    IF str # <<>> /\ Head(str) \in WhiteSpace THEN trimStart(Tail(str)) ELSE str

RECURSIVE trimEnd(_)
trimEnd(str) ==
    IF str # <<>> /\ str[Len(str)] \in WhiteSpace
    THEN trimEnd(SubSeq(str, 1, Len(str) - 1))
    ELSE str

\* String.prototype.trim
trim(str) == trimEnd(trimStart(str))

\* String.prototype.indexOf for one character: 0-based, -1 if absent
RECURSIVE indexOf(_, _)
indexOf(str, ch) ==
    IF str = <<>> THEN -1
    ELSE IF Head(str) = ch THEN 0
    ELSE LET rest == indexOf(Tail(str), ch)
         IN  IF rest = -1 THEN -1 ELSE rest + 1

\* String.prototype.lastIndexOf for one character
RECURSIVE lastIndexOf(_, _)
lastIndexOf(str, ch) ==
    IF str = <<>> THEN -1
    ELSE IF str[Len(str)] = ch THEN Len(str) - 1
    ELSE lastIndexOf(SubSeq(str, 1, Len(str) - 1), ch)

\* String.prototype.substring(start, end), and substring(start)
substring(str, start, end) == SubSeq(str, start + 1, end)
substringFrom(str, start) == SubSeq(str, start + 1, Len(str))

\* String.prototype.split for a one-character separator
RECURSIVE split(_, _)
split(str, sep) ==
    LET at == indexOf(str, sep)
    IN  IF at = -1 THEN <<str>>
        ELSE <<substring(str, 0, at)>> \o split(substringFrom(str, at + 1), sep)

\* Array.prototype.join
RECURSIVE join(_, _)
join(strs, sep) ==
    IF strs = <<>> THEN <<>>
    ELSE IF Len(strs) = 1 THEN strs[1]
    ELSE strs[1] \o <<sep>> \o join(Tail(strs), sep)

\* parseCSV splitting each line at its last comma
RECURSIVE parseLinesAtLastComma(_)
parseLinesAtLastComma(lines) ==
    IF lines = <<>> THEN <<>>
    ELSE LET line == trim(Head(lines))
             commaIndex == lastIndexOf(line, ",")
             front == trim(substring(line, 0, commaIndex))
             back == trim(substringFrom(line, commaIndex + 1))
             rest == parseLinesAtLastComma(Tail(lines))
         IN  IF line = <<>> THEN rest
             ELSE IF commaIndex = -1 THEN rest
             ELSE IF front # <<>> /\ back # <<>>
                  THEN <<[front |-> front, back |-> back, card_type |-> "term"]>> \o rest
                  ELSE rest

parseCSVAtLastComma(csvText) ==
    parseLinesAtLastComma(SelectSeq(split(csvText, "\n"), LAMBDA line : trim(line) # <<>>))

\* the loop of parseCSV over the lines from the first of `lines` on
RECURSIVE parseLines(_)
parseLines(lines) ==
    IF lines = <<>> THEN <<>>
    ELSE LET line == trim(Head(lines))
             commaIndex == indexOf(line, ",")
             front == trim(substring(line, 0, commaIndex))
             back == trim(substringFrom(line, commaIndex + 1))
             rest == parseLines(Tail(lines))
         IN  IF line = <<>> THEN rest
             ELSE IF commaIndex = -1 THEN rest
             ELSE IF front # <<>> /\ back # <<>>
                  THEN <<[front |-> front, back |-> back, card_type |-> "term"]>> \o rest
                  ELSE rest

parseCSV(csvText) ==
    parseLines(SelectSeq(split(csvText, "\n"), LAMBDA line : trim(line) # <<>>))

\* a text is given to parseCSV
InitCsv ==
    /\ clock = 0
    /\ FnIdle /\ CardIdle /\ SessIdle
    /\ LearnIdle /\ FlashIdle /\ EditIdle
    /\ \E csvText \in Strings(CsvChars, MaxCsvLen) :
          csv = [phase |-> "text", csvText |-> csvText]

ParseCalled ==
    /\ csv.phase = "text"
    /\ csv' = [phase |-> "parsed", csvText |-> csv.csvText,
               cards |-> parseCSV(csv.csvText)]
    /\ UNCHANGED <<clock, fnVars, cardVars, sessVars, learn, flash, edit>>

SpecCsv == InitCsv /\ [][ParseCalled]_vars

\* the fields of a card in the editor
FieldChars == {"a", ",", " ", "\n"}
EditorCards ==
    [front : Strings(FieldChars, MaxFieldLen), back : Strings(FieldChars, MaxFieldLen)]

\* the editor of EditSet holds some cards
InitExport ==
    /\ clock = 0
    /\ FnIdle /\ CardIdle /\ SessIdle
    /\ LearnIdle /\ FlashIdle /\ EditIdle
    /\ \E n \in 1..MaxCsvCards : \E cards \in [1..n -> EditorCards] :
          csv = [phase |-> "editor", cards |-> cards]

\* handleExportText
handleExportText ==
    /\ csv.phase = "editor"
    /\ LET complete == SelectSeq(csv.cards,
                           LAMBDA c : trim(c.front) # <<>> /\ trim(c.back) # <<>>)
           rows == [k \in 1..Len(complete) |->
                       complete[k].front \o <<",">> \o complete[k].back]
       IN  csv' = [phase |-> "exported", cards |-> csv.cards,
                   exportText |-> join(rows, "\n")]
    /\ UNCHANGED <<clock, fnVars, cardVars, sessVars, learn, flash, edit>>

\* handleImportText on the exported text
handleImportText ==
    /\ csv.phase = "exported"
    /\ IF trim(csv.exportText) = <<>>
       THEN csv' = [phase |-> "imported", exported |-> csv.cards,
                    importText |-> csv.exportText, cards |-> csv.cards]
       ELSE csv' = [phase |-> "imported", exported |-> csv.cards,
                    importText |-> csv.exportText,
                    cards |-> [k \in 1..Len(parseCSV(csv.exportText)) |->
                                 [front |-> parseCSV(csv.exportText)[k].front,
                                  back |-> parseCSV(csv.exportText)[k].back]]]
    /\ UNCHANGED <<clock, fnVars, cardVars, sessVars, learn, flash, edit>>

NextExport == handleExportText \/ handleImportText

SpecExport == InitExport /\ [][NextExport]_vars

---------------------------------------------------------------------------
(* EditSet (part_001).  The cards table is the set of the rows of the set  *)
(* being edited.  card_type and the description are carried along by the   *)
(* code unchanged and are left out, as is the generated definition, which  *)
(* is one more change of a card's back.  The save button is disabled while *)
(* a save is under way.  The requests of handleSave whose error the code   *)
(* does not read are taken to succeed.                                     *)

\* the texts of a title or of a card's side
EditValues == {<<>>, <<"a">>, <<"b">>}
\* the texts Import Text is given
ImportTexts == {<<"a", ",", "b">>, <<"a">>}

\* the cards tables EditSet may find: complete cards at positions 0..n-1
StoredCards ==
    UNION {{{[id |-> k, front |-> rows[k].front, back |-> rows[k].back,
              order_index |-> k - 1] : k \in 1..n} :
            rows \in [1..n -> [front : EditValues \ {<<>>},
                               back : EditValues \ {<<>>}]]} : n \in 0..MaxStored}

\* `.order('order_index')`: the rows in a sequence of ascending order_index
Ordered(rows) ==
    {sorted \in [1..Cardinality(rows) -> rows] :
        /\ \A i, j \in 1..Cardinality(rows) : i # j => sorted[i] # sorted[j]
        /\ \A i, j \in 1..Cardinality(rows) :
              i < j => sorted[i].order_index <= sorted[j].order_index}

\* `c.front.trim() && c.back.trim()`
Complete(c) == trim(c.front) # <<>> /\ trim(c.back) # <<>>

\* EditSet mounted on a set: useState's initial values, loadSet under way
EditMounted(rows) ==
    [phase |-> "loading",
     store |-> rows,
     title |-> <<>>,
     cards |-> <<>>,
     nextId |-> MaxStored + 1,     \* the next id crypto.randomUUID or the table gives
     save |-> [pc |-> "idle"]]

\* loadSet resumes with the set and its cards
SetLoaded ==
    /\ edit.phase = "loading"
    /\ \E cardsData \in Ordered(edit.store) :
          edit' = [edit EXCEPT
              !.phase = "editing",
              !.title = <<"a">>,
              !.cards = IF Len(cardsData) > 0
                        THEN [k \in 1..Len(cardsData) |->
                                 [id |-> cardsData[k].id, front |-> cardsData[k].front,
                                  back |-> cardsData[k].back, isNew |-> FALSE]]
                        ELSE @]
    /\ UNCHANGED <<clock, fnVars, cardVars, sessVars, learn, flash, csv>>

\* the title input
TitleChanged(value) ==
    /\ edit.phase = "editing"
    /\ value # edit.title
    /\ edit' = [edit EXCEPT !.title = value]
    /\ UNCHANGED <<clock, fnVars, cardVars, sessVars, learn, flash, csv>>

addCard ==
    /\ edit.phase = "editing"
    /\ Len(edit.cards) < MaxEditCards
    /\ edit.nextId <= MaxEditIds
    /\ edit' = [edit EXCEPT
           !.cards = Append(@, [id |-> edit.nextId, front |-> <<>>, back |-> <<>>,
                                isNew |-> TRUE]),
           !.nextId = @ + 1]
    /\ UNCHANGED <<clock, fnVars, cardVars, sessVars, learn, flash, csv>>

removeCard(id) ==
    /\ edit.phase = "editing"
    /\ \E k \in 1..Len(edit.cards) : edit.cards[k].id = id
    /\ Len(edit.cards) > 1
    /\ edit' = [edit EXCEPT !.cards = SelectSeq(@, LAMBDA c : c.id # id)]
    /\ UNCHANGED <<clock, fnVars, cardVars, sessVars, learn, flash, csv>>

updateCard(id, field, value) ==
    /\ edit.phase = "editing"
    /\ \E k \in 1..Len(edit.cards) : edit.cards[k].id = id /\ edit.cards[k][field] # value
    /\ edit' = [edit EXCEPT
           !.cards = [k \in 1..Len(@) |->
                         IF @[k].id = id THEN [@[k] EXCEPT ![field] = value] ELSE @[k]]]
    /\ UNCHANGED <<clock, fnVars, cardVars, sessVars, learn, flash, csv>>

\* handleImportText in EditSet: the parsed cards replace the editor's cards
ImportClicked(importText) ==
    /\ edit.phase = "editing"
    /\ trim(importText) # <<>>
    /\ LET imported == parseCSV(importText)
       IN  /\ edit.nextId + Len(imported) <= MaxEditIds + 1
           /\ edit' = [edit EXCEPT
                  !.cards = [k \in 1..Len(imported) |->
                                [id |-> edit.nextId + k - 1, front |-> imported[k].front,
                                 back |-> imported[k].back, isNew |-> TRUE]],
                  !.nextId = @ + Len(imported)]
    /\ UNCHANGED <<clock, fnVars, cardVars, sessVars, learn, flash, csv>>

\* handleSave up to its first await; a blank title or no complete card
\* only shows a toast
handleSave ==
    /\ edit.phase = "editing"
    /\ trim(edit.title) # <<>>
    /\ SelectSeq(edit.cards, Complete) # <<>>
    /\ edit' = [edit EXCEPT
           !.phase = "saving",
           !.save = [pc |-> "sets", cards |-> edit.cards,
                     validCards |-> SelectSeq(edit.cards, Complete), i |-> 0]]
    /\ UNCHANGED <<clock, fnVars, cardVars, sessVars, learn, flash, csv>>

\* the update of sets answers: an error is thrown and reported, otherwise
\* the delete is sent
SetUpdated(ok) ==
    /\ edit.phase = "saving"
    /\ edit.save.pc = "sets"
    /\ edit' = IF ok
               THEN [edit EXCEPT !.save.pc = "delete"]
               ELSE [edit EXCEPT !.phase = "editing", !.save = [pc |-> "idle"]]
    /\ UNCHANGED <<clock, fnVars, cardVars, sessVars, learn, flash, csv>>

\* the delete of the rows whose id is not among the editor's old cards
RemovedDeleted ==
    /\ edit.phase = "saving"
    /\ edit.save.pc = "delete"
    /\ LET existingCardIds ==
               {edit.save.cards[k].id : k \in {j \in 1..Len(edit.save.cards) :
                                                   ~edit.save.cards[j].isNew}}
       IN  edit' = [edit EXCEPT
               !.store = {row \in @ : row.id \in existingCardIds},
               !.save.pc = "cards",
               !.save.i = 0]
    /\ UNCHANGED <<clock, fnVars, cardVars, sessVars, learn, flash, csv>>

\* the insert or update of validCards[i] is done; after the last one the
\* success toast is shown and the editor is left
CardSaved ==
    /\ edit.phase = "saving"
    /\ edit.save.pc = "cards"
    /\ LET i == edit.save.i
           this == edit.save.validCards[i + 1]
           last == i + 1 = Len(edit.save.validCards)
       IN  edit' = [edit EXCEPT
               !.store = IF this.isNew
                         THEN @ \cup {[id |-> edit.nextId, front |-> this.front,
                                       back |-> this.back, order_index |-> i]}
                         ELSE {IF row.id = this.id
                               THEN [row EXCEPT !.front = this.front,
                                                !.back = this.back,
                                                !.order_index = i]
                               ELSE row : row \in @},
               !.nextId = IF this.isNew THEN @ + 1 ELSE @,
               !.save.i = i + 1,
               !.save.pc = IF last THEN "done" ELSE @,
               !.phase = IF last THEN "saved" ELSE @]
    /\ UNCHANGED <<clock, fnVars, cardVars, sessVars, learn, flash, csv>>

InitEdit ==
    /\ clock = 0
    /\ FnIdle /\ CardIdle /\ SessIdle
    /\ LearnIdle /\ FlashIdle /\ CsvIdle
    /\ \E rows \in StoredCards : edit = EditMounted(rows)

NextEdit ==
    \/ SetLoaded
    \/ \E value \in EditValues : TitleChanged(value)
    \/ addCard
    \/ \E id \in 1..MaxEditIds : removeCard(id)
    \/ \E id \in 1..MaxEditIds, field \in {"front", "back"}, value \in EditValues :
          updateCard(id, field, value)
    \/ \E importText \in ImportTexts : ImportClicked(importText)
    \/ handleSave
    \/ \E ok \in BOOLEAN : SetUpdated(ok)
    \/ RemovedDeleted
    \/ CardSaved

SpecEdit == InitEdit /\ [][NextEdit]_vars

---------------------------------------------------------------------------
(* Properties of the scheduler, checked under SpecFn *)

\* the result of invocation i for difficulty d
FnRet(i, d) == fnCalls[i].ret[d]

FnCalled == Len(fnCalls) > 0

\* the integer nearest to num / den, a half rounded up: the k with
\* k - 1/2 <= num/den < k + 1/2, for num >= 0 and den > 0
RoundHalfUp(num, den) ==
    CHOOSE k \in 0..(num \div den + 1) :
        /\ (2 * k - 1) * den <= 2 * num
        /\ 2 * num < (2 * k + 1) * den

\* C1: for every valid MemoryState, rating 'again' returns interval 1,
\* repetitions 0 and ease factor max(1.3, ease - 0.2), whatever the prior
\* interval and repetition streak were.
C1_AgainResets ==
    \A i \in 1..Len(fnCalls) :
        ValidMemoryState(fnState) =>
            /\ FnRet(i, "again").interval = 1
            /\ FnRet(i, "again").repetitions = 0
            /\ FnRet(i, "again").ease_factor =
                  (IF fnState.ease - 20 >= 130 THEN fnState.ease - 20 ELSE 130)

\* spec scenario 2: {ease 2.5, interval 6, repetitions 2} rated again
C1_Witness ==
    /\ FnCalled
    /\ fnState = [ease |-> 250, interval |-> 6, repetitions |-> 2]
    /\ FnRet(1, "again").ease_factor = 230
    /\ FnRet(1, "again").interval = 1
    /\ FnRet(1, "again").repetitions = 0

\* C3: for every valid MemoryState and every rating the returned interval
\* is at least 1: the rounded products never drop to 0.
C3_IntervalAtLeastOne ==
    \A i \in 1..Len(fnCalls) : \A d \in Difficulty :
        ValidMemoryState(fnState) => FnRet(i, d).interval >= 1

\* the smallest valid products: interval 1 at ease 1.3
C3_Witness ==
    /\ FnCalled
    /\ fnState.ease = 130 /\ fnState.interval = 1 /\ fnState.repetitions = 0
    /\ FnRet(1, "hard").interval = 1
    /\ FnRet(1, "good").interval = 1
    /\ FnRet(1, "easy").interval = 2

\* C4: for every valid MemoryState and rating hard, good or easy the result
\* is the reference table's: interval round-half-up of interval * 1.2,
\* interval * ease, interval * ease * 1.3 (with the ease passed in),
\* repetitions + 1, ease max(1.3, ease - 0.15), ease, min(2.5, ease + 0.15).
C4_ReferenceTable ==
    \A i \in 1..Len(fnCalls) :
        ValidMemoryState(fnState) =>
            LET e == fnState.ease
                n == fnState.interval
                hard == FnRet(i, "hard")
                good == FnRet(i, "good")
                easy == FnRet(i, "easy")
            IN  /\ hard.interval = RoundHalfUp(n * 12, 10)
                /\ good.interval = RoundHalfUp(n * e, 100)
                /\ easy.interval = RoundHalfUp(n * e * 13, 1000)
                /\ hard.repetitions = fnState.repetitions + 1
                /\ good.repetitions = fnState.repetitions + 1
                /\ easy.repetitions = fnState.repetitions + 1
                /\ hard.ease_factor = (IF e - 15 >= 130 THEN e - 15 ELSE 130)
                /\ good.ease_factor = e
                /\ easy.ease_factor = (IF e + 15 <= 250 THEN e + 15 ELSE 250)

\* spec scenario 3: {ease 1.3, interval 10, repetitions 5} rated hard
C4_Witness ==
    /\ FnCalled
    /\ fnState = [ease |-> 130, interval |-> 10, repetitions |-> 5]
    /\ FnRet(1, "hard").ease_factor = 130
    /\ FnRet(1, "hard").interval = 12
    /\ FnRet(1, "hard").repetitions = 6

\* C5: for a valid state with ease > 1.3 (and interval > 0) the interval
\* returned for easy is >= the one for good, which is >= the one for hard.
C5_Monotone ==
    \A i \in 1..Len(fnCalls) :
        (ValidMemoryState(fnState) /\ fnState.ease > 130 /\ fnState.interval > 0) =>
            /\ FnRet(i, "easy").interval >= FnRet(i, "good").interval
            /\ FnRet(i, "good").interval >= FnRet(i, "hard").interval

\* a state where the three intervals differ
C5_Witness ==
    /\ FnCalled
    /\ ValidMemoryState(fnState) /\ fnState.ease > 130
    /\ FnRet(1, "easy").interval > FnRet(1, "good").interval
    /\ FnRet(1, "good").interval > FnRet(1, "hard").interval

C9_InvalidRatingRejected ==
    \A i \in 1..Len(fnCalls) : FnRet(i, NotADifficulty) = InvalidInput

\* C10: called with a MemoryState that violates its invariants (interval
\* below 1, ease outside [1.3, 2.5], negative repetitions), the update
\* reports InvalidInput instead of returning a state.
C10_InvalidStateRejected ==
    \A i \in 1..Len(fnCalls) : \A d \in Difficulty :
        ~ValidMemoryState(fnState) => FnRet(i, d) = InvalidInput

---------------------------------------------------------------------------
(* Properties of one card's history, checked under SpecCard *)

\* the position of the last 'again' in the log, 0 if there is none
LastAgain ==
    LET at == {k \in 1..Len(ratingLog) : ratingLog[k] = "again"}
    IN  IF at = {} THEN 0 ELSE CHOOSE k \in at : \A m \in at : m <= k

\* C2: from the default state, under any sequence of ratings, the ease
\* factor stays within [1.3, 2.5].
C2_EaseInRange == card.ease_factor >= 130 /\ card.ease_factor <= 250

\* seven 'again' in a row: the seventh would take the ease to 1.1
C2_Witness ==
    /\ Len(ratingLog) = 7
    /\ \A k \in 1..7 : ratingLog[k] = "again"
    /\ card.ease_factor = 130

\* C6: after any sequence of ratings from the default state, repetitions
\* is the number of ratings applied since the most recent 'again' (since
\* the start if there was none).
C6_RepetitionsCountStreak == card.repetitions = Len(ratingLog) - LastAgain

\* an 'again' in the middle of the sequence, two ratings after it
C6_Witness ==
    /\ Len(ratingLog) = 5
    /\ ratingLog[2] # "again" /\ ratingLog[3] = "again"
    /\ ratingLog[4] # "again" /\ ratingLog[5] # "again"
    /\ card.repetitions = 2

---------------------------------------------------------------------------
(* Properties of the spaced session, checked under Spec *)

\* the card has been rated: its row carries a last_reviewed instant
Rated(c) == progress[c] # NoRow /\ progress[c].last_reviewed # Null

\* C7: the MemoryState handleDifficulty writes for a rated card has
\* next_review equal to the rating instant plus the new interval in days and
\* last_reviewed equal to that same instant: in every written row,
\* next_review is last_reviewed plus interval days.
C7_DatesFromOneInstant ==
    \A c \in Cards :
        Rated(c) =>
            progress[c].next_review =
                progress[c].last_reviewed + progress[c].interval * DayLen

---------------------------------------------------------------------------
(* Properties of loadDueCards, checked under SpecLoad and Spec *)

\* the cards of the session's due list
DueIds(s) == {dueCards[s][i].id : i \in 1..Len(dueCards[s])}

\* loadDueCards has returned, past its loop or through its catch
LoadEnded(s) == loadCall[s].pc \in {"done", "failed"}

\* C11: a card that had a MemoryState when loadDueCards selected the cards
\* is in the session's due list if and only if that state's next_review is
\* not after `now`, the instant the selection took; equality counts as due.
C11_DueIffNotAfterNow ==
    \A s \in Sessions :
        LoadEnded(s) =>
            \A k \in 1..Len(loadCall[s].cardsData) :
                LET c == loadCall[s].cardsData[k]
                IN  c.progress # NoRow =>
                        (c.id \in DueIds(s) <=> c.progress.next_review <= loadCall[s].now)

\* C12: a card that had no MemoryState when loadDueCards selected the
\* cards is in the due list once the load has returned, whatever time
\* passed between taking `now` and the creation of the default state.
C12_NewCardsAlwaysDue ==
    \A s \in Sessions :
        loadCall[s].pc = "done" =>
            \A k \in 1..Len(loadCall[s].cardsData) :
                LET c == loadCall[s].cardsData[k]
                IN  c.progress = NoRow => c.id \in DueIds(s)

\* a step of some session's loadDueCards
LoadStep == \E s \in Sessions : loadCall[s].pc \in {"select", "insert"} /\ loadCall'[s] # loadCall[s]

C14_DueInPositionOrder ==
    \A s \in Sessions :
        \A i, j \in 1..Len(dueCards[s]) :
            i < j => dueCards[s][i].id < dueCards[s][j].id

\* C16: the MemoryState created on the first encounter of a card has ease
\* 2.5, interval 1, repetitions 0, next_review equal to the instant of its
\* creation, and no last_reviewed.
C16_CreatedWithDefaults ==
    [][\A c \in Cards :
          (progress[c] = NoRow /\ progress'[c] # NoRow) =>
              progress'[c] = [ease_factor |-> 250, interval |-> 1, repetitions |-> 0,
                              next_review |-> clock', last_reviewed |-> Null]]_vars

\* a state created at instant 2, as the session that created it shows it
C16_Witness ==
    /\ clock = 2
    /\ loadCall[1].pc = "done"
    /\ \E i \in 1..Len(dueCards[1]) :
          /\ dueCards[1][i].id = 1
          /\ dueCards[1][i].progress = progress[1]
    /\ progress[1] = [ease_factor |-> 250, interval |-> 1, repetitions |-> 0,
                      next_review |-> 2, last_reviewed |-> Null]

\* C20: when two sessions load the same set concurrently and a card has no
\* MemoryState, at most one row per card ever exists (progress holds one
\* row per card), and each session finishes loading with every due card in
\* its due list: its load does not stop short, and the cards whose state is
\* due at its `now` are all in its list.
C20_ConcurrentLoadsComplete ==
    \A s \in Sessions :
        LoadEnded(s) =>
            /\ loadCall[s].pc = "done"
            /\ \A c \in setCards :
                  (progress[c] # NoRow /\ progress[c].next_review <= loadCall[s].now)
                      => c \in DueIds(s)

---------------------------------------------------------------------------
(* Properties of handleDifficulty, checked under Spec *)

\* C15: each review action makes one update of the card's MemoryState, and
\* the ease, interval and repetitions it writes are the scheduler's output
\* for the state the card had before the write and the rating chosen.
C15_WritesSchedulerOutput ==
    [][\A s \in Sessions : \A h \in 1..MaxInFlight :
          ProgressUpdated(s, h) =>
              LET call == handlers[s][h]
                  prior == progress[call.id]
                  out == SwitchDifficulty(prior.ease_factor, prior.interval,
                                          prior.repetitions, call.difficulty)
              IN  /\ writes'[s][call.id] = writes[s][call.id] + 1
                  /\ progress'[call.id].ease_factor = out.ease_factor
                  /\ progress'[call.id].interval = out.interval
                  /\ progress'[call.id].repetitions = out.repetitions]_vars

\* the session's ratings are all written and startSession has returned
Settled(s) == handlers[s] = <<>> /\ startCall[s] = "done"

\* C18: once the last card of a non-empty due list has been rated and the
\* session's requests have all been answered, the study_sessions row is
\* closed: ended_at is set and cards_studied is the number of due cards,
\* also when the rating came before startSession had its id.
C18_LastRatingClosesSession ==
    \A s \in Sessions :
        (/\ Len(dueCards[s]) > 0
         /\ writes[s][dueCards[s][Len(dueCards[s])].id] > 0
         /\ Settled(s))
            => /\ studySessions[s] # NoRow
               /\ studySessions[s].ended_at # Null
               /\ studySessions[s].cards_studied = Len(dueCards[s])

\* C19: a session updates the MemoryState of each card of its due list at
\* most once: a rating clicked again while the first write is in flight
\* writes nothing more.
C19_AtMostOneWritePerCard ==
    \A s \in Sessions : \A c \in Cards : writes[s][c] <= 1

---------------------------------------------------------------------------
(* Fixed points of the scheduler, checked under SpecFn *)

\* C17: for a valid MemoryState, the update leaves (ease, interval,
\* repetitions) as they were in one case only: rating 'again' on ease 1.3,
\* interval 1, repetitions 0.  With hard, good or easy no state is left
\* unchanged.
C17_OnlyFixedPoint ==
    \A i \in 1..Len(fnCalls) : \A d \in Difficulty :
        ValidMemoryState(fnState) =>
            ((/\ FnRet(i, d).ease_factor = fnState.ease
              /\ FnRet(i, d).interval = fnState.interval
              /\ FnRet(i, d).repetitions = fnState.repetitions)
             <=> (/\ d = "again"
                  /\ fnState.ease = 130
                  /\ fnState.interval = 1
                  /\ fnState.repetitions = 0))

\* the fixed point: 'again' on the floor state returns it
C17_Witness ==
    /\ FnCalled
    /\ fnState = [ease |-> 130, interval |-> 1, repetitions |-> 0]
    /\ FnRet(1, "again").ease_factor = 130
    /\ FnRet(1, "again").interval = 1
    /\ FnRet(1, "again").repetitions = 0
    /\ FnRet(1, "good").repetitions = 1

---------------------------------------------------------------------------
(* A rating and a later due selection, checked under SpecSecondTab *)

---------------------------------------------------------------------------
(* Properties of LearnMode, checked under SpecLearn and SpecLearnInit *)

\* C22: in a Learn session the correct-answer counter never exceeds the
\* number of questions answered so far, nor the number of questions of the
\* session, however answering, the Next button and the auto-advance timers
\* interleave.
C22_CorrectAtMostAnswered ==
    learn.phase = "mounted" =>
        /\ learn.correctCount <=
              learn.currentIndex + (IF learn.showResult THEN 1 ELSE 0)
        /\ learn.correctCount <= Len(learn.studyCards)

\* the positions of the question list that ask card i in the given mode
Asked(i, mode) ==
    {j \in 1..Len(learn.studyCards) :
        /\ learn.studyCards[j].id = i
        /\ learn.studyCards[j].front = learn.cards[i].front
        /\ learn.studyCards[j].questionMode = mode}

\* C23: the question list of a Learn session holds each card of the set
\* once as a typing question and, exactly when the set has 4 cards or
\* more, once more as a multiple-choice question, and nothing else: its
\* length is n for n < 4 and 2n for n >= 4.
C23_QuestionList ==
    learn.phase = "mounted" =>
        LET n == Len(learn.cards)
        IN  /\ Len(learn.studyCards) = (IF n >= 4 THEN 2 * n ELSE n)
            /\ \A i \in 1..n :
                  /\ Cardinality(Asked(i, "typing")) = 1
                  /\ Cardinality(Asked(i, "mcq")) = (IF n >= 4 THEN 1 ELSE 0)

\* four cards, eight questions, shuffled: the list starts with the
\* multiple-choice question of the last card and ends with its typing one
C23_Witness ==
    /\ learn.phase = "mounted"
    /\ Len(learn.cards) = 4
    /\ Len(learn.studyCards) = 8
    /\ learn.studyCards[1] = [id |-> 4, front |-> "d", questionMode |-> "mcq"]
    /\ learn.studyCards[8] = [id |-> 4, front |-> "d", questionMode |-> "typing"]

\* the positions of the option list that hold the answer
OptionsEqual(answer) ==
    {j \in 1..Len(learn.options) : learn.options[j] = answer}

\* C24: an option list generateMCQOptions returns holds the correct answer
\* exactly once and at most three other options, each the front of a card
\* other than the current one and different from the correct answer.
C24_OptionList ==
    (learn.phase = "generate" /\ learn.called) =>
        /\ Cardinality(OptionsEqual(learn.correctAnswer)) = 1
        /\ Len(learn.options) <= 3 + 1
        /\ \A j \in 1..Len(learn.options) :
              learn.options[j] # learn.correctAnswer =>
                  \E i \in 1..Len(learn.cards) :
                      /\ learn.cards[i].id # learn.currentCardId
                      /\ learn.cards[i].front = learn.options[j]

\* five cards, another card with the front of the current one, and three
\* other cards: three wrong answers around the correct one, which is there
\* once
C24_Witness ==
    /\ learn.phase = "generate" /\ learn.called
    /\ Len(learn.cards) = 5
    /\ learn.currentCardId = 1
    /\ learn.cards[2].front = learn.correctAnswer
    /\ learn.correctAnswer = "a"
    /\ learn.options = <<"b", "a", "c", "b">>

---------------------------------------------------------------------------
(* Properties of FlashcardsMode, checked under SpecFlash *)

\* C25: while a slide animation is in progress every further next or
\* previous request is ignored, from the buttons, a swipe or the arrow
\* keys: at most one slide timer is pending, and a request made during an
\* animation changes nothing.
C25_OneSlideAtATime ==
    flash.phase = "mounted" => Len(flash.timers) <= 1

\* C26: the current index is a position of the study deck,
\* 0 <= currentIndex < studyCards.length, after any sequence of next,
\* previous, shuffle, flip and replacement of the cards prop by another
\* non-empty list.
C26_IndexInDeck ==
    flash.phase = "mounted" =>
        /\ 0 <= flash.currentIndex
        /\ flash.currentIndex < Len(flash.studyCards)

---------------------------------------------------------------------------
(* Properties of parseCSV, checked under SpecCsv, and of the text export,  *)
(* checked under SpecExport *)

\* the lines of a text: the longest stretches without a newline
NewLines(text) == {i \in 1..Len(text) : text[i] = "\n"}
NthNewLine(text, k) ==
    CHOOSE i \in NewLines(text) :
        Cardinality({j \in NewLines(text) : j < i}) = k - 1
RawLines(text) ==
    [k \in 1..(Cardinality(NewLines(text)) + 1) |->
        SubSeq(text,
               IF k = 1 THEN 1 ELSE NthNewLine(text, k - 1) + 1,
               IF k = Cardinality(NewLines(text)) + 1
               THEN Len(text) ELSE NthNewLine(text, k) - 1)]

\* a string without the white space before its first and after its last
\* other character
Trimmed(str) ==
    LET inked == {i \in 1..Len(str) : str[i] \notin WhiteSpace}
    IN  IF inked = {} THEN <<>>
        ELSE SubSeq(str,
                    CHOOSE i \in inked : \A j \in inked : i <= j,
                    CHOOSE i \in inked : \A j \in inked : j <= i)

FirstComma(line) ==
    CHOOSE i \in 1..Len(line) :
        line[i] = "," /\ \A j \in 1..(i - 1) : line[j] # ","

\* a line with a comma and text on both sides of its first comma
GoodLine(line) ==
    /\ \E i \in 1..Len(line) : line[i] = ","
    /\ Trimmed(SubSeq(line, 1, FirstComma(line) - 1)) # <<>>
    /\ Trimmed(SubSeq(line, FirstComma(line) + 1, Len(line))) # <<>>

\* C27: parseCSV returns, in input order, exactly one card per line that
\* has a comma with non-empty trimmed text on both sides of its first
\* comma: front and back are the trimmed texts, card_type is 'term'; every
\* other line is skipped.
C27_OneCardPerGoodLine ==
    csv.phase = "parsed" =>
        LET good == SelectSeq(RawLines(csv.csvText), GoodLine)
        IN  csv.cards =
                [k \in 1..Len(good) |->
                    [front |-> Trimmed(SubSeq(good[k], 1, FirstComma(good[k]) - 1)),
                     back |-> Trimmed(SubSeq(good[k], FirstComma(good[k]) + 1,
                                             Len(good[k]))),
                     card_type |-> "term"]]

\* two lines give two different cards
C27_Witness ==
    /\ csv.phase = "parsed"
    /\ Len(csv.cards) = 2
    /\ csv.cards[1].front # csv.cards[2].front

\* C28: for a list of complete cards, Export Text followed by Import Text
\* gives back the same sequence of (front, back) pairs.
C28_ExportImportRoundTrip ==
    (/\ csv.phase = "imported"
     /\ \A k \in 1..Len(csv.exported) :
           Trimmed(csv.exported[k].front) # <<>> /\ Trimmed(csv.exported[k].back) # <<>>)
        => csv.cards = csv.exported

---------------------------------------------------------------------------
(* Properties of EditSet, checked under SpecEdit *)

\* C29: after handleSave reports success the rows of the set are the
\* complete cards of the editor, one row each, with order_index the
\* card's position among them; no other row is left.
C29_StoreIsEditorsCompleteCards ==
    edit.phase = "saved" =>
        LET complete == SelectSeq(edit.save.cards,
                            LAMBDA c : Trimmed(c.front) # <<>> /\ Trimmed(c.back) # <<>>)
        IN  /\ Cardinality(edit.store) = Len(complete)
            /\ \A k \in 1..Len(complete) :
                  \E row \in edit.store :
                      /\ row.front = complete[k].front
                      /\ row.back = complete[k].back
                      /\ row.order_index = k - 1

=============================================================================
